---- MODULE Spec2Model ----
(***************************************************************************)
(* The two restaurant services of the repository:                          *)
(*   Restaurant_Chain/main.py             the menu-only service            *)
(*   Restaurant_Chain_Two_tables/main.py  the menu-plus-orders service     *)
(* A state holds the running service (service), its module globals         *)
(* (menu_db, the menu id counter, orders_db, next_order_id), the position  *)
(* of the module-level seeding loop, and the last request with the         *)
(* response it got.                                                        *)
(*                                                                         *)
(* Strings are run-length encoded: a string is a sequence of runs          *)
(* [c |-> class, n |-> count] with class one of "letter", "space",         *)
(* "digit", "punct", so that names of 100 and 101 characters are values    *)
(* of the model.  Decimals are integers counted in thousandths, so that a  *)
(* price with three fractional digits is a value of the model.             *)
(* Optional[int] is <<>> (None) or <<n>>.                                  *)
(***************************************************************************)
EXTENDS Integers, Sequences, FiniteSets, TLC

VARIABLES service, seed_pos, menu_db, last_item_id, next_menu_id,
          orders_db, next_order_id, request, response,
          peer_menu_db, peer_response, pending, completed

vars == <<service, seed_pos, menu_db, last_item_id, next_menu_id,
          orders_db, next_order_id, request, response,
          peer_menu_db, peer_response, pending, completed>>

\* peer_menu_db, peer_response: the other service of a pair of services fed
\* the same requests; pending, completed: the requests in flight and those
\* answered, when several requests wait for the event loop.  A single
\* service taking one request at a time leaves the four as they start.
aux == <<peer_menu_db, peer_response, pending, completed>>

----------------------------------------------------------------------------
(* Strings *)

Run(c, n) == [c |-> c, n |-> n]

RECURSIVE StrLen(_)
StrLen(s) == IF s = <<>> THEN 0 ELSE Head(s).n + StrLen(Tail(s))

RECURSIVE LStrip(_)
LStrip(s) == IF s # <<>> /\ Head(s).c = "space" THEN LStrip(Tail(s)) ELSE s

RECURSIVE RStrip(_)
RStrip(s) ==
    IF s # <<>> /\ s[Len(s)].c = "space"
    THEN RStrip(SubSeq(s, 1, Len(s) - 1))
    ELSE s

\* str.strip(): surrounding whitespace removed
Strip(s) == RStrip(LStrip(s))

\* re.fullmatch(r'^[a-zA-Z\s]+$', v)
MatchesLettersAndSpaces(s) ==
    /\ StrLen(s) >= 1
    /\ \A i \in 1..Len(s) : s[i].c \in {"letter", "space"}

\* Decimal literal units.hundredths, counted in thousandths
Dec(units, hundredths) == units * 1000 + hundredths * 10

\* the number of fractional digits of a decimal is at most 2
AtMostTwoPlaces(d) == d % 10 = 0

----------------------------------------------------------------------------
(* Field constraints of FoodItemCreate *)

MinNameLen == 3
MaxNameLen == 100
MinDescLen == 10
MaxDescLen == 500
MinPrepTime == 1
MaxPrepTime == 120

FoodCategory == {"appetizer", "main_course", "dessert", "beverage", "salad"}

RequiredFields ==
    {"name", "description", "category", "price", "preparation_time", "ingredients"}

OptionalFields == {"is_available", "calories", "is_vegetarian", "is_spicy"}

ModelFields == RequiredFields \cup OptionalFields

\* the defaults of the fields declared with one
FieldDefault(f) ==
    CASE f = "is_available" -> TRUE
      [] f = "calories" -> <<>>
      [] f = "is_vegetarian" -> FALSE
      [] f = "is_spicy" -> FALSE

\* Field(..., min_length=3, max_length=100), checked on the string received
NameLengthOk(v) == MinNameLen <= StrLen(v) /\ StrLen(v) <= MaxNameLen

validate_name_characters_NoStrip(v) ==
    [ok |-> MatchesLettersAndSpaces(v), value |-> v]

\* the field validator of name: runs after the length constraints
validate_name_characters(v) ==
    [ok |-> MatchesLettersAndSpaces(v), value |-> Strip(v)]

\* the field validator of price
validate_price_range(v) == Dec(1, 0) <= v /\ v <= Dec(100, 0)

\* Field(..., gt=0, decimal_places=2)
PriceFieldOk(v) == v > 0 /\ AtMostTwoPlaces(v)

DescriptionOk(v) == MinDescLen <= StrLen(v) /\ StrLen(v) <= MaxDescLen

PrepTimeOk(v) == MinPrepTime <= v /\ v <= MaxPrepTime

IngredientsOk(v) == Len(v) >= 1

CaloriesOk(v) == v = <<>> \/ v[1] > 0

\* the value of field f after validation of input data d (a function on the
\* keys given): the given value, the name stripped, or the default
FieldValue(d, f) ==
    IF f \in DOMAIN d
    THEN IF f = "name" THEN validate_name_characters(d[f]).value ELSE d[f]
    ELSE FieldDefault(f)

\* Validation of the ten fields of FoodItemCreate on input data d.
FieldsValid(d) ==
    /\ RequiredFields \subseteq DOMAIN d
    /\ NameLengthOk(d["name"])
    /\ validate_name_characters(d["name"]).ok
    /\ DescriptionOk(d["description"])
    /\ d["category"] \in FoodCategory
    /\ PriceFieldOk(d["price"])
    /\ validate_price_range(d["price"])
    /\ PrepTimeOk(d["preparation_time"])
    /\ IngredientsOk(d["ingredients"])
    /\ ("calories" \in DOMAIN d => CaloriesOk(d["calories"]))

\* FoodItemCreate(**d): ok = no ValidationError; data = the field values;
\* fields_set = the fields given explicitly
FoodItemCreate(d) ==
    IF FieldsValid(d)
    THEN [ok |-> TRUE,
          data |-> [f \in ModelFields |-> FieldValue(d, f)],
          fields_set |-> DOMAIN d \cap ModelFields]
    ELSE [ok |-> FALSE, data |-> <<>>, fields_set |-> {}]

\* model.dict(): every field
ModelDict(m) == m.data

\* model.dict(exclude_unset=True): the fields given explicitly
ModelDictExcludeUnset(m) == [f \in m.fields_set |-> m.data[f]]

\* FoodItem(id=id, **d): the same ten validations, plus the id
FoodItem(id, d) ==
    LET m == FoodItemCreate(d)
    IN  IF m.ok
        THEN [ok |-> TRUE,
              value |-> [f \in ModelFields \cup {"id"} |->
                            IF f = "id" THEN id ELSE m.data[f]]]
        ELSE [ok |-> FALSE, value |-> <<>>]

price_category_Inclusive(item) ==
    IF item["price"] <= Dec(10, 0) THEN "Budget"
    ELSE IF item["price"] <= Dec(25, 0) THEN "Mid-range" ELSE "Premium"

\* computed properties
price_category(item) ==
    IF item["price"] < Dec(10, 0) THEN "Budget"
    ELSE IF Dec(10, 0) <= item["price"] /\ item["price"] <= Dec(25, 0)
         THEN "Mid-range"
         ELSE "Premium"

dietary_info(item) ==
    (IF item["is_vegetarian"] THEN <<"Vegetarian">> ELSE <<>>)
    \o (IF item["is_spicy"] THEN <<"Spicy">> ELSE <<>>)

----------------------------------------------------------------------------
(* A Python dict: the sequence of its entries, in insertion order *)

DictKeys(d) == {d[i].key : i \in 1..Len(d)}

DictHas(d, k) == \E i \in 1..Len(d) : d[i].key = k

DictGet(d, k) == d[CHOOSE i \in 1..Len(d) : d[i].key = k].value

\* d[k] = v: an existing key keeps its position, a new key goes last
DictSet(d, k, v) ==
    IF DictHas(d, k)
    THEN [i \in 1..Len(d) |-> IF d[i].key = k THEN [key |-> k, value |-> v] ELSE d[i]]
    ELSE Append(d, [key |-> k, value |-> v])

DictDel_All(d, k) == <<>>

\* del d[k]
DictDel(d, k) == SelectSeq(d, LAMBDA e : e.key # k)

\* list(d.values())
DictValues(d) == [i \in 1..Len(d) |-> d[i].value]

----------------------------------------------------------------------------
(* The sample data the module inserts as it is loaded *)

Text(n) == <<Run("letter", n)>>

Words2(a, b) == <<Run("letter", a), Run("space", 1), Run("letter", b)>>

Words3(a, b, c) ==
    <<Run("letter", a), Run("space", 1), Run("letter", b), Run("space", 1),
      Run("letter", c)>>

MargheritaPizza ==
    [name |-> Words2(10, 5), description |-> Text(67), category |-> "main_course",
     price |-> Dec(15, 99), preparation_time |-> 20,
     ingredients |-> <<"pizza dough", "tomato sauce", "mozzarella", "basil", "olive oil">>,
     calories |-> <<650>>, is_vegetarian |-> TRUE, is_spicy |-> FALSE]

SpicyChickenWings ==
    [name |-> Words3(5, 7, 5), description |-> Text(54), category |-> "appetizer",
     price |-> Dec(12, 50), preparation_time |-> 15,
     ingredients |-> <<"chicken wings", "hot sauce", "butter", "celery salt">>,
     calories |-> <<420>>, is_vegetarian |-> FALSE, is_spicy |-> TRUE]

CaesarSalad ==
    [name |-> Words2(6, 5), description |-> Text(69), category |-> "salad",
     price |-> Dec(8, 75), preparation_time |-> 10,
     ingredients |-> <<"romaine lettuce", "croutons", "parmesan cheese", "Caesar dressing">>,
     calories |-> <<300>>, is_vegetarian |-> TRUE, is_spicy |-> FALSE]

ChocolateLavaCake ==
    [name |-> Words3(9, 4, 4), description |-> Text(81), category |-> "dessert",
     price |-> Dec(7, 99), preparation_time |-> 25,
     ingredients |-> <<"chocolate", "flour", "sugar", "eggs", "butter", "ice cream">>,
     calories |-> <<750>>, is_vegetarian |-> TRUE, is_spicy |-> FALSE]

OrangeJuice ==
    [name |-> Words2(6, 5), description |-> Text(29), category |-> "beverage",
     price |-> Dec(3, 50), preparation_time |-> 5,
     ingredients |-> <<"oranges">>,
     calories |-> <<120>>, is_vegetarian |-> TRUE, is_spicy |-> FALSE]

SeasonalSoup ==
    [name |-> Words2(8, 4), description |-> Text(36), category |-> "appetizer",
     price |-> Dec(6, 0), preparation_time |-> 10,
     ingredients |-> <<"vegetables", "broth">>, is_available |-> FALSE,
     calories |-> <<250>>, is_vegetarian |-> TRUE, is_spicy |-> FALSE]

\* menu-only service
sample_menu_items_raw ==
    <<MargheritaPizza, SpicyChickenWings, CaesarSalad, ChocolateLavaCake, OrangeJuice>>

\* order service
sample_food_items_raw ==
    <<MargheritaPizza, SpicyChickenWings, CaesarSalad, ChocolateLavaCake, OrangeJuice,
      SeasonalSoup>>

Services == {"menu", "orders"}

SampleItems == IF service = "menu" THEN sample_menu_items_raw ELSE sample_food_items_raw

----------------------------------------------------------------------------
(* Order models of the order service *)

OrderStatus == {"pending", "confirmed", "ready", "delivered"}

MinCustomerNameLen == 2
MaxCustomerNameLen == 50
PhoneDigits == 10
MinAddressLen == 5
MaxItemNameLen == 100
MaxQuantity == 10

\* Field(..., pattern=r"^\d{10}$")
MatchesPhone(s) ==
    /\ StrLen(s) = PhoneDigits
    /\ \A i \in 1..Len(s) : s[i].c = "digit"

CustomerValid(c) ==
    /\ MinCustomerNameLen <= StrLen(c.name) /\ StrLen(c.name) <= MaxCustomerNameLen
    /\ MatchesPhone(c.phone)
    /\ StrLen(c.address) >= MinAddressLen

OrderItemValid(i) ==
    /\ i.menu_item_id > 0
    /\ 1 <= StrLen(i.menu_item_name) /\ StrLen(i.menu_item_name) <= MaxItemNameLen
    /\ i.quantity > 0 /\ i.quantity <= MaxQuantity
    /\ i.unit_price > 0 /\ AtMostTwoPlaces(i.unit_price)

\* OrderCreate(**d): ok = no ValidationError
OrderCreate(d) ==
    IF /\ CustomerValid(d.customer)
       /\ Len(d.items) >= 1
       /\ \A i \in 1..Len(d.items) : OrderItemValid(d.items[i])
    THEN [ok |-> TRUE, data |-> [customer |-> d.customer, items |-> d.items]]
    ELSE [ok |-> FALSE, data |-> <<>>]

\* Order(id=id, status=st, **d)
Order(id, st, d) ==
    LET m == OrderCreate(d)
    IN  IF m.ok /\ st \in OrderStatus
        THEN [ok |-> TRUE,
              value |-> [id |-> id, status |-> st,
                         customer |-> m.data.customer, items |-> m.data.items]]
        ELSE [ok |-> FALSE, value |-> <<>>]

\* OrderItem.item_total
item_total(i) == i.quantity * i.unit_price

\* sum(item.item_total for item in items), from 0, in the order of the list
RECURSIVE SumItemTotals(_)
SumItemTotals(items) ==
    IF items = <<>> THEN 0
    ELSE SumItemTotals(SubSeq(items, 1, Len(items) - 1)) + item_total(items[Len(items)])

\* sum(item.quantity for item in items)
RECURSIVE SumQuantities(_)
SumQuantities(items) ==
    IF items = <<>> THEN 0
    ELSE SumQuantities(SubSeq(items, 1, Len(items) - 1)) + items[Len(items)].quantity

\* Order.total_amount
total_amount(order) == SumItemTotals(order.items)

\* DELIVERY_FEE = Decimal('2.99')
DELIVERY_FEE == Dec(2, 99)

total_amount_with_delivery_NoFee(order) == total_amount(order)

\* Order.total_amount_with_delivery
total_amount_with_delivery(order) == total_amount(order) + DELIVERY_FEE

\* Order.total_items_count
total_items_count(order) == Len(order.items)

\* Order.total_quantity
total_quantity(order) == SumQuantities(order.items)

\* the order as the response model OrderResponse shows it
OrderResponse(order) ==
    [id |-> order.id, customer |-> order.customer, items |-> order.items,
     total_amount |-> total_amount(order),
     total_amount_with_delivery |-> total_amount_with_delivery(order),
     total_items_count |-> total_items_count(order),
     total_quantity |-> total_quantity(order),
     status |-> order.status]

\* the order as get_all_orders shows it
OrderSummaryResponse(order) ==
    [id |-> order.id, customer_name |-> order.customer.name,
     total_amount |-> total_amount(order), status |-> order.status]

----------------------------------------------------------------------------
(* Request bodies *)

PaddedName ==
    <<Run("space", 2), Run("letter", 5), Run("space", 1), Run("letter", 10),
      Run("space", 2)>>

\* every field given
FullPayload ==
    [name |-> PaddedName, description |-> Text(40), category |-> "dessert",
     price |-> Dec(10, 0), is_available |-> FALSE, preparation_time |-> 20,
     ingredients |-> <<"dough", "cheese">>, calories |-> <<650>>,
     is_vegetarian |-> TRUE, is_spicy |-> TRUE]

\* the required fields only, each at its lower limit
RequiredOnly ==
    [name |-> Text(3), description |-> Text(10), category |-> "beverage",
     price |-> Dec(1, 0), preparation_time |-> 1, ingredients |-> <<"water">>]

\* the required fields only, each at its upper limit
UpperLimits ==
    [name |-> Text(100), description |-> Text(500), category |-> "salad",
     price |-> Dec(100, 0), preparation_time |-> 120, ingredients |-> <<"leaves">>]

With(d, f, v) == [g \in DOMAIN d \cup {f} |-> IF g = f THEN v ELSE d[g]]

MenuPayload(n) ==
    CASE n = "full" -> FullPayload
      [] n = "required_only" -> RequiredOnly
      [] n = "defaults_explicit" ->
            With(With(With(RequiredOnly, "is_available", TRUE),
                      "is_vegetarian", FALSE), "calories", <<>>)
      [] n = "upper_limits" -> UpperLimits
      [] n = "price_only" -> [price |-> Dec(20, 0)]
      [] n = "name_2" -> With(RequiredOnly, "name", Text(2))
      [] n = "name_101" -> With(RequiredOnly, "name", Text(101))
      [] n = "name_padded_to_5" ->
            With(RequiredOnly, "name",
                 <<Run("space", 2), Run("letter", 1), Run("space", 2)>>)
      [] n = "name_padded_to_102" ->
            With(RequiredOnly, "name",
                 <<Run("space", 1), Run("letter", 100), Run("space", 1)>>)
      [] n = "name_blank" -> With(RequiredOnly, "name", <<Run("space", 3)>>)
      [] n = "name_digits" ->
            With(RequiredOnly, "name",
                 <<Run("letter", 5), Run("digit", 3), Run("punct", 1)>>)
      [] n = "description_9" -> With(RequiredOnly, "description", Text(9))
      [] n = "description_501" -> With(RequiredOnly, "description", Text(501))
      [] n = "category_unknown" -> With(RequiredOnly, "category", "pizza")
      [] n = "price_0_50" -> With(RequiredOnly, "price", Dec(0, 50))
      [] n = "price_100_01" -> With(RequiredOnly, "price", Dec(100, 1))
      [] n = "price_3_places" -> With(RequiredOnly, "price", Dec(1, 0) + 5)
      [] n = "preparation_0" -> With(RequiredOnly, "preparation_time", 0)
      [] n = "preparation_121" -> With(RequiredOnly, "preparation_time", 121)
      [] n = "ingredients_empty" -> With(RequiredOnly, "ingredients", <<>>)
      [] n = "calories_0" -> With(RequiredOnly, "calories", <<0>>)

CreatePayloads ==
    {"full", "required_only", "defaults_explicit", "upper_limits", "price_only",
     "name_2", "name_101", "name_padded_to_5", "name_padded_to_102",
     "name_blank", "name_digits", "description_9", "description_501",
     "category_unknown", "price_0_50", "price_100_01", "price_3_places",
     "preparation_0", "preparation_121", "ingredients_empty", "calories_0"}

UpdatePayloads ==
    {"full", "defaults_explicit", "price_only", "name_padded_to_5", "price_0_50"}

Alice ==
    [name |-> Words2(5, 5), phone |-> <<Run("digit", 10)>>,
     address |-> <<Run("digit", 3), Run("space", 1), Run("letter", 23)>>]

EveAdams ==
    [name |-> Words2(3, 5), phone |-> <<Run("digit", 10)>>,
     address |-> <<Run("digit", 3), Run("space", 1), Run("letter", 4),
                   Run("space", 1), Run("letter", 6)>>]

FrankGreen ==
    [name |-> Words2(5, 5), phone |-> <<Run("digit", 10)>>,
     address |-> <<Run("digit", 3), Run("space", 1), Run("letter", 8),
                   Run("space", 1), Run("letter", 4)>>]

GraceHopper ==
    [name |-> Words2(5, 6), phone |-> <<Run("digit", 10)>>,
     address |-> Words2(4, 5)]

Line(id, name, q, price) ==
    [menu_item_id |-> id, menu_item_name |-> name, quantity |-> q, unit_price |-> price]

OrderPayload(n) ==
    CASE n = "valid_order" ->
            [customer |-> Alice,
             items |-> <<Line(1, Words2(10, 5), 1, Dec(15, 99)),
                         Line(2, Words3(5, 7, 5), 2, Dec(12, 50))>>]
      [] n = "empty_items" -> [customer |-> Alice, items |-> <<>>]
      [] n = "invalid_phone" ->
            [customer |-> [Alice EXCEPT !.phone = <<Run("digit", 3)>>],
             items |-> <<Line(3, Words2(6, 5), 1, Dec(8, 75))>>]
      [] n = "large_quantity" ->
            [customer |-> Alice,
             items |-> <<Line(4, Words3(9, 4, 4), 15, Dec(7, 99))>>]
      [] n = "invalid_menu_item_id" ->
            [customer |-> EveAdams,
             items |-> <<Line(999, Words2(3, 8), 1, Dec(10, 0))>>]
      [] n = "price_mismatch" ->
            [customer |-> FrankGreen,
             items |-> <<Line(1, Words2(10, 5), 1, Dec(10, 0))>>]
      [] n = "unavailable_item" ->
            [customer |-> GraceHopper,
             items |-> <<Line(6, Words2(8, 4), 1, Dec(6, 0))>>]

OrderPayloads == {"valid_order", "empty_items", "invalid_phone", "large_quantity"}

\* the three scenarios of a rule the code does not enforce
UnenforcedPayloads == {"invalid_menu_item_id", "price_mismatch", "unavailable_item"}

AllOrderPayloads == OrderPayloads \cup UnenforcedPayloads

----------------------------------------------------------------------------
(* Bounds and request inputs *)

\* records (menu ids consumed plus orders) created after the seeding
MaxNew == 2

\* the menu id counter: the last id handed out
MenuCounter == IF service = "menu" THEN last_item_id ELSE next_menu_id - 1

NewRecords == (MenuCounter - Len(SampleItems)) + (next_order_id - 1)

Seeded == seed_pos = Len(SampleItems)

\* ids named in menu requests: the only seeded dessert, the two ids around
\* the end of the seeded range, and one that is never assigned
ItemIds == {4, 6, 7, 999}

OrderIds == {1, 2, 999}

CategoryInputs == FoodCategory \cup {"pizza"}

StatusInputs == OrderStatus \cup {"cancelled"}

----------------------------------------------------------------------------
(* Handlers.  A handler's outcome: the response (status, detail, body) and *)
(* the globals as the handler leaves them.                                 *)

MenuOutcome(st, detail, body, db, lid, nid) ==
    [status |-> st, detail |-> detail, body |-> body,
     menu_db |-> db, last_item_id |-> lid, next_menu_id |-> nid]

MenuUnchanged(st, detail, body) ==
    MenuOutcome(st, detail, body, menu_db, last_item_id, next_menu_id)

OrderOutcome(st, detail, body, db, nid) ==
    [status |-> st, detail |-> detail, body |-> body,
     orders_db |-> db, next_order_id |-> nid, menu_db |-> menu_db]

OrderUnchanged(st, detail, body) ==
    OrderOutcome(st, detail, body, orders_db, next_order_id)

\* FoodItem(id=id, **kwargs): a key "id" in kwargs is a second value for the
\* keyword id (TypeError); otherwise the model validates (ValidationError,
\* a ValueError) or gives the item
NewFoodItem(id, kwargs) ==
    IF "id" \in DOMAIN kwargs
    THEN [raised |-> "TypeError", value |-> <<>>]
    ELSE LET v == FoodItem(id, kwargs)
         IN  IF v.ok THEN [raised |-> "", value |-> v.value]
                     ELSE [raised |-> "ValidationError", value |-> <<>>]

\* menu-only service: the counter is raised, then the item is built and stored
add_item_to_db(item_data) ==
    LET id == last_item_id + 1
        r == NewFoodItem(id, ModelDict(item_data))
    IN  [raised |-> r.raised,
         last_item_id |-> id,
         next_menu_id |-> next_menu_id,
         menu_db |-> IF r.raised = "" THEN DictSet(menu_db, id, r.value) ELSE menu_db,
         new_item |-> IF r.raised = "" THEN <<r.value>> ELSE <<>>]

add_food_item_to_db_NoIncrement(item_data) ==
    LET r == NewFoodItem(next_menu_id, ModelDict(item_data))
    IN  [raised |-> r.raised,
         last_item_id |-> last_item_id,
         next_menu_id |-> next_menu_id,
         menu_db |-> IF r.raised = "" THEN DictSet(menu_db, next_menu_id, r.value)
                                      ELSE menu_db,
         new_item |-> IF r.raised = "" THEN <<r.value>> ELSE <<>>]

\* order service: the item is built and stored, then the counter is raised
add_food_item_to_db(item_data) ==
    LET r == NewFoodItem(next_menu_id, ModelDict(item_data))
    IN  [raised |-> r.raised,
         last_item_id |-> last_item_id,
         next_menu_id |-> IF r.raised = "" THEN next_menu_id + 1 ELSE next_menu_id,
         menu_db |-> IF r.raised = "" THEN DictSet(menu_db, next_menu_id, r.value)
                                      ELSE menu_db,
         new_item |-> IF r.raised = "" THEN <<r.value>> ELSE <<>>]

AddToDb(item_data) ==
    IF service = "menu" THEN add_item_to_db(item_data)
                        ELSE add_food_item_to_db(item_data)

\* POST /menu
add_menu_item(body) ==
    LET item == FoodItemCreate(body)
    IN  IF ~item.ok
        THEN MenuUnchanged(422, "request validation error", <<>>)
        ELSE LET r == AddToDb(item)
             IN  IF r.raised = ""
                 THEN MenuOutcome(201, "", r.new_item,
                                  r.menu_db, r.last_item_id, r.next_menu_id)
                 ELSE MenuOutcome(500, "Internal Server Error", <<>>,
                                  r.menu_db, r.last_item_id, r.next_menu_id)

\* GET /menu
get_all_menu_items == MenuUnchanged(200, "", DictValues(menu_db))

get_menu_item_NoCheck(item_id) ==
    MenuUnchanged(200, "",
                  IF DictHas(menu_db, item_id) THEN <<DictGet(menu_db, item_id)>> ELSE <<>>)

\* GET /menu/{item_id}
get_menu_item(item_id) ==
    IF ~DictHas(menu_db, item_id)
    THEN MenuUnchanged(404, "Food item not found", <<>>)
    ELSE MenuUnchanged(200, "", <<DictGet(menu_db, item_id)>>)

\* existing_item_data after the loop over updated_item.dict(exclude_unset=True)
MergedItemData(existing, updated_item) ==
    LET upd == ModelDictExcludeUnset(updated_item)
    IN  [f \in DOMAIN existing \cup DOMAIN upd |->
            IF f \in DOMAIN upd THEN upd[f] ELSE existing[f]]

\* PUT /menu/{item_id}
update_menu_item(item_id, body) ==
    LET updated_item == FoodItemCreate(body)
    IN  IF ~updated_item.ok
        THEN MenuUnchanged(422, "request validation error", <<>>)
        ELSE IF ~DictHas(menu_db, item_id)
        THEN MenuUnchanged(404, "Food item not found", <<>>)
        ELSE LET existing_item_data ==
                     MergedItemData(DictGet(menu_db, item_id), updated_item)
                 r == NewFoodItem(item_id, existing_item_data)
             IN  CASE r.raised = "" ->
                        MenuOutcome(200, "", <<r.value>>,
                                    DictSet(menu_db, item_id, r.value),
                                    last_item_id, next_menu_id)
                   [] r.raised = "ValidationError" ->
                        MenuUnchanged(422, "Validation error during update", <<>>)
                   [] OTHER ->
                        MenuUnchanged(500, "Internal Server Error", <<>>)

\* DELETE /menu/{item_id}
delete_menu_item(item_id) ==
    IF ~DictHas(menu_db, item_id)
    THEN MenuUnchanged(404, "Food item not found", <<>>)
    ELSE MenuOutcome(200, "Food item deleted successfully", <<>>,
                     DictDel(menu_db, item_id), last_item_id, next_menu_id)

get_items_by_category_Others(category) ==
    LET filtered_items ==
            SelectSeq(DictValues(menu_db), LAMBDA item : item["category"] # category)
    IN  IF category \notin FoodCategory
        THEN MenuUnchanged(422, "request validation error", <<>>)
        ELSE IF filtered_items = <<>>
        THEN MenuUnchanged(404, "No items found in category", <<>>)
        ELSE MenuUnchanged(200, "", filtered_items)

\* GET /menu/category/{category}
get_items_by_category(category) ==
    LET filtered_items ==
            SelectSeq(DictValues(menu_db), LAMBDA item : item["category"] = category)
    IN  IF category \notin FoodCategory
        THEN MenuUnchanged(422, "request validation error", <<>>)
        ELSE IF filtered_items = <<>>
        THEN MenuUnchanged(404, "No items found in category", <<>>)
        ELSE MenuUnchanged(200, "", filtered_items)

create_order_on_NoIncrement(db, nid, body) ==
    LET order_data == OrderCreate(body)
    IN  IF ~order_data.ok
        THEN OrderOutcome(422, "request validation error", <<>>, db, nid)
        ELSE LET new_order == Order(nid, "pending", order_data.data)
             IN  IF new_order.ok
                 THEN OrderOutcome(201, "", <<OrderResponse(new_order.value)>>,
                                   DictSet(db, nid, new_order.value), nid)
                 ELSE OrderOutcome(500, "Internal Server Error", <<>>, db, nid)

create_order_on_ChecksMenu(db, nid, body) ==
    LET order_data == OrderCreate(body)
    IN  IF ~order_data.ok
        THEN OrderOutcome(422, "request validation error", <<>>, db, nid)
        ELSE IF \E i \in 1..Len(body.items) : ~DictHas(menu_db, body.items[i].menu_item_id)
        THEN OrderOutcome(404, "Food item not found", <<>>, db, nid)
        ELSE LET new_order == Order(nid, "pending", order_data.data)
             IN  OrderOutcome(201, "", <<OrderResponse(new_order.value)>>,
                              DictSet(db, nid, new_order.value), nid + 1)

create_order_on_MarksUnavailable(db, nid, body) ==
    LET order_data == OrderCreate(body)
    IN  IF ~order_data.ok
        THEN OrderOutcome(422, "request validation error", <<>>, db, nid)
        ELSE LET new_order == Order(nid, "pending", order_data.data)
                 o == OrderOutcome(201, "", <<OrderResponse(new_order.value)>>,
                                   DictSet(db, nid, new_order.value), nid + 1)
             IN  [o EXCEPT !.menu_db =
                     [i \in 1..Len(menu_db) |->
                        IF menu_db[i].key = body.items[1].menu_item_id
                        THEN [menu_db[i] EXCEPT !.value["is_available"] = FALSE]
                        ELSE menu_db[i]]]

\* create_order on the order mapping db and the counter nid
create_order_on(db, nid, body) ==
    LET order_data == OrderCreate(body)
    IN  IF ~order_data.ok
        THEN OrderOutcome(422, "request validation error", <<>>, db, nid)
        ELSE LET new_order == Order(nid, "pending", order_data.data)
             IN  IF new_order.ok
                 THEN OrderOutcome(201, "", <<OrderResponse(new_order.value)>>,
                                   DictSet(db, nid, new_order.value), nid + 1)
                 ELSE OrderOutcome(500, "Internal Server Error", <<>>, db, nid)

\* POST /orders
create_order(body) == create_order_on(orders_db, next_order_id, body)

\* GET /orders
get_all_orders ==
    OrderUnchanged(200, "",
                   [i \in 1..Len(orders_db) |-> OrderSummaryResponse(orders_db[i].value)])

\* GET /orders/{order_id}
get_order_details(order_id) ==
    IF ~DictHas(orders_db, order_id)
    THEN OrderUnchanged(404, "Order not found", <<>>)
    ELSE OrderUnchanged(200, "", <<OrderResponse(DictGet(orders_db, order_id))>>)

update_order_status_on_ForwardOnly(db, nid, order_id, new_status) ==
    IF new_status \notin OrderStatus
    THEN OrderOutcome(422, "request validation error", <<>>, db, nid)
    ELSE IF ~DictHas(db, order_id)
    THEN OrderOutcome(404, "Order not found", <<>>, db, nid)
    ELSE IF DictGet(db, order_id).status = "delivered"
    THEN OrderOutcome(422, "request validation error", <<>>, db, nid)
    ELSE LET order == [DictGet(db, order_id) EXCEPT !.status = new_status]
         IN  OrderOutcome(200, "", <<OrderResponse(order)>>,
                          DictSet(db, order_id, order), nid)

update_order_status_on_DropsLines(db, nid, order_id, new_status) ==
    IF new_status \notin OrderStatus
    THEN OrderOutcome(422, "request validation error", <<>>, db, nid)
    ELSE IF ~DictHas(db, order_id)
    THEN OrderOutcome(404, "Order not found", <<>>, db, nid)
    ELSE LET order == [DictGet(db, order_id) EXCEPT !.status = new_status,
                                                     !.items = <<>>]
         IN  OrderOutcome(200, "", <<OrderResponse(order)>>,
                          DictSet(db, order_id, order), nid)

\* update_order_status on the order mapping db and the counter nid
update_order_status_on(db, nid, order_id, new_status) ==
    IF new_status \notin OrderStatus
    THEN OrderOutcome(422, "request validation error", <<>>, db, nid)
    ELSE IF ~DictHas(db, order_id)
    THEN OrderOutcome(404, "Order not found", <<>>, db, nid)
    ELSE LET order == [DictGet(db, order_id) EXCEPT !.status = new_status]
         IN  OrderOutcome(200, "", <<OrderResponse(order)>>,
                          DictSet(db, order_id, order), nid)

\* PUT /orders/{order_id}/status
update_order_status(order_id, new_status) ==
    update_order_status_on(orders_db, next_order_id, order_id, new_status)

\* whether a direct call create_order(OrderCreate(**payload)) returned an order
Created(o) == o.status = 201

\* the verdict of a scenario that expects the create to fail
ExpectFailure(o) == IF Created(o) THEN "FAIL" ELSE "PASS"

\* the asserts on the computed properties of the first order
ComputedPropertiesHold(r) ==
    /\ r.total_amount = Dec(40, 99)
    /\ r.total_amount_with_delivery = Dec(43, 98)
    /\ r.total_items_count = 2
    /\ r.total_quantity = 3

\* the statement "v = <call>" followed by the statements Rest, which read v
Then(call, Rest(_)) == CHOOSE out \in {Rest(v) : v \in {call}} : TRUE

\* the dictionary results at the return of run_order_test_cases
Results(t1, t2, t3, t4, t5, t6, t7, t8) ==
    [valid_order_test |-> IF Created(t1) THEN "PASS" ELSE "FAIL",
     order_id |-> IF Created(t1) THEN t1.body[1].id ELSE 0,
     computed_properties_verified |->
         IF ~Created(t1) THEN ""
         ELSE IF t1.body[1].id = 1 THEN "PASS"
         ELSE "SKIPPED (not first order)",
     empty_items_test |-> ExpectFailure(t2),
     invalid_phone_test |-> ExpectFailure(t3),
     large_quantity_test |-> ExpectFailure(t4),
     status_update_test |->
         IF ~Created(t1) THEN "SKIPPED"
         ELSE IF t5.status = 200 /\ t5.body[1].status = "confirmed" THEN "PASS"
         ELSE "FAIL",
     invalid_menu_item_id_test |-> ExpectFailure(t6),
     price_mismatch_test |-> ExpectFailure(t7),
     unavailable_item_test |-> ExpectFailure(t8)]

\* a scenario's call of create_order, on the order mapping and the counter
\* the call before it (prev) left
Scenario(prev, n) == create_order_on(prev.orders_db, prev.next_order_id, OrderPayload(n))

\* case 5: the status update of the order of case 1, if that was created
StatusUpdateCase(t1, prev) ==
    IF Created(t1)
    THEN update_order_status_on(prev.orders_db, prev.next_order_id,
                                t1.body[1].id, "confirmed")
    ELSE prev

\* GET /run-order-tests: the eight scenarios in turn, each on the order
\* mapping and the counter its predecessor left
run_order_test_cases ==
    Then(create_order(OrderPayload("valid_order")), LAMBDA t1 :
    IF Created(t1) /\ t1.body[1].id = 1 /\ ~ComputedPropertiesHold(t1.body[1])
    THEN OrderOutcome(500, "Internal Server Error", <<>>, t1.orders_db, t1.next_order_id)
    ELSE
    Then(Scenario(t1, "empty_items"), LAMBDA t2 :
    Then(Scenario(t2, "invalid_phone"), LAMBDA t3 :
    Then(Scenario(t3, "large_quantity"), LAMBDA t4 :
    Then(StatusUpdateCase(t1, t4), LAMBDA t5 :
    Then(Scenario(t5, "invalid_menu_item_id"), LAMBDA t6 :
    Then(Scenario(t6, "price_mismatch"), LAMBDA t7 :
    Then(Scenario(t7, "unavailable_item"), LAMBDA t8 :
    OrderOutcome(200, "", <<Results(t1, t2, t3, t4, t5, t6, t7, t8)>>,
                 t8.orders_db, t8.next_order_id)))))))))

----------------------------------------------------------------------------
(* The state machine *)

Req(op, id, arg) == [op |-> op, id |-> id, arg |-> arg]

Resp(o) == [status |-> o.status, detail |-> o.detail, body |-> o.body]

Init ==
    /\ service \in Services
    /\ seed_pos = 0
    /\ menu_db = <<>>
    /\ last_item_id = 0
    /\ next_menu_id = 1
    /\ orders_db = <<>>
    /\ next_order_id = 1
    /\ request = Req("startup", 0, "")
    /\ response = [status |-> 0, detail |-> "", body |-> <<>>]
    /\ peer_menu_db = <<>>
    /\ peer_response = [status |-> 0, detail |-> "", body |-> <<>>]
    /\ pending = {}
    /\ completed = {}

ApplyMenu(req, o) ==
    /\ request' = req
    /\ response' = Resp(o)
    /\ menu_db' = o.menu_db
    /\ last_item_id' = o.last_item_id
    /\ next_menu_id' = o.next_menu_id
    /\ UNCHANGED <<service, seed_pos, orders_db, next_order_id, aux>>

ApplyOrder(req, o) ==
    /\ request' = req
    /\ response' = Resp(o)
    /\ orders_db' = o.orders_db
    /\ next_order_id' = o.next_order_id
    /\ menu_db' = o.menu_db
    /\ UNCHANGED <<service, seed_pos, last_item_id, next_menu_id, aux>>

\* one turn of the module-level loop over the sample items
Seed ==
    /\ ~Seeded
    /\ LET item_data == FoodItemCreate(SampleItems[seed_pos + 1])
       IN  /\ item_data.ok
           /\ LET r == AddToDb(item_data)
              IN  /\ r.raised = ""
                  /\ menu_db' = r.menu_db
                  /\ last_item_id' = r.last_item_id
                  /\ next_menu_id' = r.next_menu_id
    /\ seed_pos' = seed_pos + 1
    /\ UNCHANGED <<service, orders_db, next_order_id, request, response, aux>>

AddMenuItem ==
    /\ Seeded
    /\ NewRecords < MaxNew
    /\ \E n \in CreatePayloads :
          ApplyMenu(Req("add_menu_item", 0, n), add_menu_item(MenuPayload(n)))

GetAllMenuItems ==
    /\ Seeded
    /\ ApplyMenu(Req("get_all_menu_items", 0, ""), get_all_menu_items)

GetMenuItem ==
    /\ Seeded
    /\ \E item_id \in ItemIds :
          ApplyMenu(Req("get_menu_item", item_id, ""), get_menu_item(item_id))

UpdateMenuItem ==
    /\ Seeded
    /\ \E item_id \in ItemIds, n \in UpdatePayloads :
          ApplyMenu(Req("update_menu_item", item_id, n),
                    update_menu_item(item_id, MenuPayload(n)))

DeleteMenuItem ==
    /\ Seeded
    /\ \E item_id \in ItemIds :
          ApplyMenu(Req("delete_menu_item", item_id, ""), delete_menu_item(item_id))

GetItemsByCategory ==
    /\ Seeded
    /\ \E category \in CategoryInputs :
          ApplyMenu(Req("get_items_by_category", 0, category),
                    get_items_by_category(category))

CreateOrder ==
    /\ Seeded
    /\ service = "orders"
    /\ NewRecords < MaxNew
    /\ \E n \in OrderPayloads :
          ApplyOrder(Req("create_order", 0, n), create_order(OrderPayload(n)))

GetOrderDetails ==
    /\ Seeded
    /\ service = "orders"
    /\ \E order_id \in OrderIds :
          ApplyOrder(Req("get_order_details", order_id, ""), get_order_details(order_id))

UpdateOrderStatus ==
    /\ Seeded
    /\ service = "orders"
    /\ \E order_id \in OrderIds, new_status \in StatusInputs :
          ApplyOrder(Req("update_order_status", order_id, new_status),
                     update_order_status(order_id, new_status))

GetAllOrders ==
    /\ Seeded
    /\ service = "orders"
    /\ ApplyOrder(Req("get_all_orders", 0, ""), get_all_orders)

Next ==
    \/ Seed
    \/ AddMenuItem
    \/ GetAllMenuItems
    \/ GetMenuItem
    \/ UpdateMenuItem
    \/ DeleteMenuItem
    \/ GetItemsByCategory
    \/ CreateOrder
    \/ GetAllOrders
    \/ GetOrderDetails
    \/ UpdateOrderStatus

Spec == Init /\ [][Next]_vars

----------------------------------------------------------------------------
(* The two services side by side: both start from the five samples they   *)
(* share and the next id 6, and each request is handled by the menu-only  *)
(* service and then by the order service.  Between requests menu_db and   *)
(* peer_response belong to the menu-only service, peer_menu_db and        *)
(* response to the order service.                                         *)

\* the menu after the loop over the first n sample items
RECURSIVE LoadSamples(_)
LoadSamples(n) ==
    IF n = 0 THEN <<>>
    ELSE DictSet(LoadSamples(n - 1), n,
                 FoodItem(n, ModelDict(FoodItemCreate(sample_menu_items_raw[n]))).value)

MenuRequests ==
    {Req("add_menu_item", 0, n) : n \in CreatePayloads}
    \cup {Req("get_all_menu_items", 0, "")}
    \cup {Req("get_menu_item", item_id, "") : item_id \in ItemIds}
    \cup {Req("update_menu_item", item_id, n) : item_id \in ItemIds, n \in UpdatePayloads}
    \cup {Req("delete_menu_item", item_id, "") : item_id \in ItemIds}
    \cup {Req("get_items_by_category", 0, category) : category \in CategoryInputs}

\* the route table of the menu endpoints
MenuHandler(req) ==
    CASE req.op = "add_menu_item" -> add_menu_item(MenuPayload(req.arg))
      [] req.op = "get_all_menu_items" -> get_all_menu_items
      [] req.op = "get_menu_item" -> get_menu_item(req.id)
      [] req.op = "update_menu_item" -> update_menu_item(req.id, MenuPayload(req.arg))
      [] req.op = "delete_menu_item" -> delete_menu_item(req.id)
      [] req.op = "get_items_by_category" -> get_items_by_category(req.arg)

PairInit ==
    /\ service = "menu"
    /\ seed_pos = Len(sample_menu_items_raw)
    /\ menu_db = LoadSamples(Len(sample_menu_items_raw))
    /\ peer_menu_db = LoadSamples(Len(sample_menu_items_raw))
    /\ last_item_id = Len(sample_menu_items_raw)
    /\ next_menu_id = Len(sample_menu_items_raw) + 1
    /\ orders_db = <<>>
    /\ next_order_id = 1
    /\ request = Req("startup", 0, "")
    /\ response = [status |-> 0, detail |-> "", body |-> <<>>]
    /\ peer_response = [status |-> 0, detail |-> "", body |-> <<>>]
    /\ pending = {}
    /\ completed = {}

\* the menu-only service handles a request
PairFirst ==
    /\ service = "menu"
    /\ \E req \in MenuRequests :
          /\ req.op = "add_menu_item" =>
                last_item_id - Len(sample_menu_items_raw) < MaxNew
          /\ LET o == MenuHandler(req)
             IN  /\ request' = req
                 /\ peer_response' = Resp(o)
                 /\ last_item_id' = o.last_item_id
                 /\ menu_db' = peer_menu_db
                 /\ peer_menu_db' = o.menu_db
    /\ service' = "orders"
    /\ UNCHANGED <<seed_pos, next_menu_id, orders_db, next_order_id, response,
                   pending, completed>>

\* the order service handles the same request
PairSecond ==
    /\ service = "orders"
    /\ LET o == MenuHandler(request)
       IN  /\ response' = Resp(o)
           /\ next_menu_id' = o.next_menu_id
           /\ menu_db' = peer_menu_db
           /\ peer_menu_db' = o.menu_db
    /\ service' = "menu"
    /\ UNCHANGED <<seed_pos, last_item_id, orders_db, next_order_id, request,
                   peer_response, pending, completed>>

PairNext ==
    \/ PairFirst
    \/ PairSecond

SpecPair == PairInit /\ [][PairNext]_vars

----------------------------------------------------------------------------
(* The order service alone, with every order route and the demonstration  *)
(* endpoint, and a few menu requests beside them.                         *)

\* orders the store may hold when the demonstration endpoint has run; single
\* creates are the first MaxNew orders
MaxOrders == 9

OrdersMenuRequests ==
    {Req("add_menu_item", 0, n) : n \in {"full", "name_2"}}
    \cup {Req("update_menu_item", 1, "price_only")}
    \cup {Req("delete_menu_item", item_id, "") : item_id \in {1, 999}}

OrdersInit == Init /\ service = "orders"

\* a menu request served by the order service
OrdersMenuRequest ==
    /\ Seeded
    /\ \E req \in OrdersMenuRequests :
          /\ req.op = "add_menu_item" => NewRecords < MaxNew
          /\ ApplyMenu(req, MenuHandler(req))

OrdersCreateOrder ==
    /\ Seeded
    /\ next_order_id <= MaxNew
    /\ \E n \in AllOrderPayloads :
          ApplyOrder(Req("create_order", 0, n), create_order(OrderPayload(n)))

OrdersUpdateOrderStatus ==
    /\ Seeded
    /\ \E order_id \in {1, 999}, new_status \in StatusInputs :
          ApplyOrder(Req("update_order_status", order_id, new_status),
                     update_order_status(order_id, new_status))

RunOrderTests ==
    /\ Seeded
    /\ next_order_id + 3 <= MaxOrders
    /\ ApplyOrder(Req("run_order_test_cases", 0, ""), run_order_test_cases)

OrdersNext ==
    \/ Seed
    \/ OrdersMenuRequest
    \/ OrdersCreateOrder
    \/ GetAllOrders
    \/ GetOrderDetails
    \/ OrdersUpdateOrderStatus
    \/ RunOrderTests

SpecOrders == OrdersInit /\ [][OrdersNext]_vars

----------------------------------------------------------------------------
(* Several requests in flight.  A handler is an async def with no await in *)
(* it, so the event loop runs it from its first line to its return before  *)
(* it starts another; which of the waiting requests it takes next is open. *)

MaxInFlight == 3

ConcRequests ==
    {Req("add_menu_item", 0, n) :
        n \in {"full", "required_only", "name_2", "name_padded_to_5"}}
    \cup {Req("delete_menu_item", Len(SampleItems) + 1, "")}
    \cup (IF service = "orders"
          THEN {Req("create_order", 0, n) : n \in {"valid_order", "invalid_menu_item_id"}}
          ELSE {})

\* the requests that have arrived so far
Arrived == Cardinality(pending) + Cardinality(completed)

\* what is kept of an answered request
Answered(p, o) ==
    [tag |-> p.tag, req |-> p.req, status |-> o.status,
     id |-> IF o.status = 201 THEN o.body[1].id ELSE 0]

\* a request reaches the server and waits for the event loop
Arrive ==
    /\ Seeded
    /\ Arrived < MaxInFlight
    /\ \E req \in ConcRequests :
          pending' = pending \cup {[tag |-> Arrived + 1, req |-> req]}
    /\ UNCHANGED <<service, seed_pos, menu_db, last_item_id, next_menu_id,
                   orders_db, next_order_id, request, response,
                   peer_menu_db, peer_response, completed>>

\* the event loop runs the handler of a waiting menu request
HandleMenuRequest ==
    \E p \in pending :
       /\ p.req.op \in {"add_menu_item", "delete_menu_item"}
       /\ LET o == MenuHandler(p.req)
          IN  /\ request' = p.req
              /\ response' = Resp(o)
              /\ menu_db' = o.menu_db
              /\ last_item_id' = o.last_item_id
              /\ next_menu_id' = o.next_menu_id
              /\ completed' = completed \cup {Answered(p, o)}
       /\ pending' = pending \ {p}
       /\ UNCHANGED <<service, seed_pos, orders_db, next_order_id,
                      peer_menu_db, peer_response>>

\* the event loop runs the handler of a waiting create order request
HandleOrderRequest ==
    \E p \in pending :
       /\ p.req.op = "create_order"
       /\ LET o == create_order(OrderPayload(p.req.arg))
          IN  /\ request' = p.req
              /\ response' = Resp(o)
              /\ orders_db' = o.orders_db
              /\ next_order_id' = o.next_order_id
              /\ menu_db' = o.menu_db
              /\ completed' = completed \cup {Answered(p, o)}
       /\ pending' = pending \ {p}
       /\ UNCHANGED <<service, seed_pos, last_item_id, next_menu_id,
                      peer_menu_db, peer_response>>

ConcNext ==
    \/ Seed
    \/ Arrive
    \/ HandleMenuRequest
    \/ HandleOrderRequest

SpecConc == Init /\ [][ConcNext]_vars

----------------------------------------------------------------------------
(* What the claims speak of *)

\* the field rules of a stored FoodItem
MeetsFieldRules(item) ==
    /\ item["name"] = Strip(item["name"])
    /\ 3 <= StrLen(item["name"]) /\ StrLen(item["name"]) <= 100
    /\ \A i \in 1..Len(item["name"]) : item["name"][i].c \in {"letter", "space"}
    /\ 10 <= StrLen(item["description"]) /\ StrLen(item["description"]) <= 500
    /\ item["category"] \in FoodCategory
    /\ Dec(1, 0) <= item["price"] /\ item["price"] <= Dec(100, 0)
    /\ item["price"] % 10 = 0
    /\ 1 <= item["preparation_time"] /\ item["preparation_time"] <= 120
    /\ Len(item["ingredients"]) >= 1
    /\ (item["calories"] = <<>> \/ item["calories"][1] > 0)
    /\ item["is_available"] \in BOOLEAN
    /\ item["is_vegetarian"] \in BOOLEAN
    /\ item["is_spicy"] \in BOOLEAN

\* the record a payload stands for under id: the fields given (the name
\* trimmed), the defaults for the others
SubmittedRecord(id, body) ==
    [f \in ModelFields \cup {"id"} |->
        IF f = "id" THEN id
        ELSE IF f \in DOMAIN body
             THEN (IF f = "name" THEN Strip(body[f]) ELSE body[f])
             ELSE FieldDefault(f)]

\* the stored record with the fields given in the payload written over it
\* (the name trimmed)
MergedRecord(stored, body) ==
    [f \in DOMAIN stored |->
        IF f \in DOMAIN body /\ f # "id"
        THEN (IF f = "name" THEN Strip(body[f]) ELSE body[f])
        ELSE stored[f]]

MenuFrame ==
    /\ menu_db' = menu_db
    /\ last_item_id' = last_item_id
    /\ next_menu_id' = next_menu_id

OrderFrame ==
    /\ orders_db' = orders_db
    /\ next_order_id' = next_order_id

\* C1: update item on an id that exists, with a payload whose merge with the
\* stored record satisfies every field rule, succeeds: the fields given are
\* written over the stored values, the others are kept, the merged record is
\* stored under the same id and returned.
C1_UpdateMergesAndStores ==
    [][(/\ request'.op = "update_menu_item"
        /\ DictHas(menu_db, request'.id)
        /\ MeetsFieldRules(MergedRecord(DictGet(menu_db, request'.id),
                                        MenuPayload(request'.arg))))
       => (/\ response'.status = 200
           /\ DictHas(menu_db', request'.id)
           /\ DictGet(menu_db', request'.id)
                = MergedRecord(DictGet(menu_db, request'.id), MenuPayload(request'.arg))
           /\ response'.body = <<DictGet(menu_db', request'.id)>>)]_vars

\* C2: update item on an id that exists, with a payload whose merged record
\* violates a field rule, ends in Invalid-Input (422) and leaves the menu
\* mapping and the id counter unchanged.
C2_InvalidMergeIsInvalidInput ==
    [][(/\ request'.op = "update_menu_item"
        /\ DictHas(menu_db, request'.id)
        /\ ~MeetsFieldRules(MergedRecord(DictGet(menu_db, request'.id),
                                         MenuPayload(request'.arg))))
       => (response'.status = 422 /\ MenuFrame)]_vars

\* C3: a create-item request that fails validation anywhere on the create
\* path leaves the menu mapping and the menu id counter as they were.
C3_FailedCreateTouchesNothing ==
    [][(request'.op = "add_menu_item" /\ response'.status # 201) => MenuFrame]_vars

\* C4: in every reachable state every FoodItem of the menu mapping satisfies
\* all the field rules.
C4_StoredItemsMeetFieldRules ==
    \A i \in 1..Len(menu_db) : MeetsFieldRules(menu_db[i].value)

\* C4's case: an item created from a request with a padded name is stored
\* and another item has been deleted
C4_Witness ==
    /\ \E i \in 1..Len(menu_db) :
          /\ menu_db[i].key > Len(SampleItems)
          /\ menu_db[i].value["name"] = Strip(PaddedName)
    /\ ~DictHas(menu_db, 4)

\* the ids the seeding gives
SeededIds == IF service = "menu" THEN 1..5 ELSE 1..6

KeysAreItemIds ==
    /\ \A i \in 1..Len(menu_db) : menu_db[i].value["id"] = menu_db[i].key
    /\ \A i, j \in 1..Len(menu_db) : menu_db[i].key = menu_db[j].key => i = j
    /\ \A i \in 1..Len(menu_db) : menu_db[i].key \in 1..MenuCounter

\* C5: menu ids are unique and never reused: the seeding gives exactly the ids
\* 1..5 (menu-only service) or 1..6 (order service), a successful create
\* returns an id greater than every id handed out before, the counter never
\* goes back, and every key of the mapping holds the item with that id.
C5_IdsUniqueNeverReused ==
    /\ [](KeysAreItemIds)
    /\ []((Seeded /\ request.op = "startup") => DictKeys(menu_db) = SeededIds)
    /\ [][/\ MenuCounter' >= MenuCounter
          /\ (request'.op = "add_menu_item" /\ response'.status = 201)
             => (/\ response'.body[1]["id"] > MenuCounter
                 /\ \A k \in DictKeys(menu_db) : response'.body[1]["id"] > k
                 /\ DictKeys(menu_db') = DictKeys(menu_db) \cup {response'.body[1]["id"]})]_vars

\* C5's case: a create succeeded after a seeded item was deleted
C5_Witness ==
    /\ request.op = "add_menu_item"
    /\ response.status = 201
    /\ ~DictHas(menu_db, 4)
    /\ NewRecords = 2

WellFormedBody(n) == FoodItemCreate(MenuPayload(n)).ok

\* C6: for an id that is not a key of the mapping concerned, get item, update
\* item (with a well-formed payload), delete item, get order and update order
\* status end in Not-Found and leave both mappings and both counters unchanged.
C6_MissingIdIsNotFound ==
    [][/\ (/\ request'.op \in {"get_menu_item", "update_menu_item", "delete_menu_item"}
           /\ request'.op = "update_menu_item" => WellFormedBody(request'.arg)
           /\ ~DictHas(menu_db, request'.id))
          => (response'.status = 404 /\ response'.detail = "Food item not found"
              /\ MenuFrame /\ OrderFrame)
       /\ (/\ request'.op \in {"get_order_details", "update_order_status"}
           /\ request'.op = "update_order_status" => request'.arg \in OrderStatus
           /\ ~DictHas(orders_db, request'.id))
          => (response'.status = 404 /\ response'.detail = "Order not found"
              /\ MenuFrame /\ OrderFrame)]_vars

\* C6's case: a status update names an order id that is missing from a
\* mapping that holds an order
C6_Witness ==
    /\ request.op = "update_order_status"
    /\ response.status = 404
    /\ orders_db # <<>>
    /\ ~DictHas(orders_db, request.id)

PriceTier(price) ==
    IF price < Dec(10, 0) THEN "Budget"
    ELSE IF price <= Dec(25, 0) THEN "Mid-range" ELSE "Premium"

\* the dietary tags of two flags
DietaryTags(vegetarian, spicy) ==
    IF vegetarian THEN (IF spicy THEN <<"Vegetarian", "Spicy">> ELSE <<"Vegetarian">>)
                  ELSE (IF spicy THEN <<"Spicy">> ELSE <<>>)

RoundTrips(item, id, body) ==
    /\ item = SubmittedRecord(id, body)
    /\ price_category(item) = PriceTier(body["price"])
    /\ dietary_info(item)
         = DietaryTags(IF "is_vegetarian" \in DOMAIN body THEN body["is_vegetarian"] ELSE FALSE,
                       IF "is_spicy" \in DOMAIN body THEN body["is_spicy"] ELSE FALSE)

\* C8: create then get is a round trip: the record a create returns, and the
\* record get item returns for the returned id right after, hold the
\* submitted fields (name trimmed), the returned id, and the price_category
\* and dietary_info of the submitted price and flags.
C8_CreateThenGetRoundTrip ==
    [][/\ (request'.op = "add_menu_item" /\ response'.status = 201)
          => (/\ Len(response'.body) = 1
              /\ RoundTrips(response'.body[1], response'.body[1]["id"],
                            MenuPayload(request'.arg))
              /\ DictHas(menu_db', response'.body[1]["id"])
              /\ DictGet(menu_db', response'.body[1]["id"]) = response'.body[1])
       /\ (/\ request.op = "add_menu_item" /\ response.status = 201
           /\ request'.op = "get_menu_item"
           /\ request'.id = response.body[1]["id"])
          => (/\ response'.status = 200
              /\ response'.body = response.body
              /\ RoundTrips(response'.body[1], request'.id, MenuPayload(request.arg)))]_vars

\* C8's case: get item right after the create that returned its id, for a
\* payload with a padded name and both flags set
C8_Witness ==
    /\ request.op = "get_menu_item"
    /\ response.status = 200
    /\ request.id > Len(SampleItems)
    /\ response.body[1]["name"] = Strip(PaddedName)
    /\ dietary_info(response.body[1]) = <<"Vegetarian", "Spicy">>

\* the payloads that differ from a valid one in the name only, the name made
\* of letters and whitespace
NameOnlyPayloads ==
    {"full", "required_only", "upper_limits", "name_2", "name_101",
     "name_padded_to_5", "name_padded_to_102", "name_blank"}

TrimmedNameLen(n) == StrLen(Strip(MenuPayload(n)["name"]))

\* C9: the name length rule is applied to the trimmed name: create accepts a
\* letters-and-whitespace name exactly when its trimmed length is between 3
\* and 100, stores it trimmed, and rejects the others with Invalid-Input.
C9_LengthRuleOnTrimmedName ==
    [][(request'.op = "add_menu_item" /\ request'.arg \in NameOnlyPayloads)
       => IF 3 <= TrimmedNameLen(request'.arg) /\ TrimmedNameLen(request'.arg) <= 100
          THEN /\ response'.status = 201
               /\ response'.body[1]["name"] = Strip(MenuPayload(request'.arg)["name"])
          ELSE response'.status = 422]_vars

\* the position of key k in the mapping
PositionOf(d, k) == CHOOSE i \in 1..Len(d) : d[i].key = k

\* C10: list by category returns exactly the stored items of the category
\* asked for, in insertion order (which is the order of the ids), ends in
\* Not-Found exactly when there is none, and changes no state.
C10_CategoryListing ==
    [][(request'.op = "get_items_by_category" /\ request'.arg \in FoodCategory)
       => LET matching == {i \in 1..Len(menu_db) :
                              menu_db[i].value["category"] = request'.arg}
              body == response'.body
          IN  /\ MenuFrame /\ OrderFrame
              /\ response'.status = (IF matching = {} THEN 404 ELSE 200)
              /\ Len(body) = Cardinality(matching)
              /\ \A j \in 1..Len(body) :
                    /\ body[j]["category"] = request'.arg
                    /\ DictHas(menu_db, body[j]["id"])
                    /\ DictGet(menu_db, body[j]["id"]) = body[j]
              /\ \A j, l \in 1..Len(body) :
                    j < l => /\ body[j]["id"] < body[l]["id"]
                             /\ PositionOf(menu_db, body[j]["id"])
                                  < PositionOf(menu_db, body[l]["id"])]_vars

\* C10's case: dessert is asked for once its last item is deleted (the
\* seeded id 4 and any dessert created since), creates having happened
C10_Witness ==
    /\ request.op = "get_items_by_category"
    /\ request.arg = "dessert"
    /\ response.status = 404
    /\ NewRecords >= 1

\* C11: every request ends in success, Invalid-Input (422) or Not-Found
\* (404); none ends in another kind of failure such as an internal server
\* error.
C11_OnlyThreeOutcomes ==
    request.op # "startup" => response.status \in {200, 201, 404, 422}

\* both services have answered the request in request
PairAnswered == service = "menu" /\ request.op # "startup"

\* C12: fed the same sequence of menu requests from the same stored menu and
\* the same next id, the menu-only service and the order service give the
\* same outcome for each request (the assigned id included) and hold the
\* same stored menu.
C12_ServicesEquivalent ==
    PairAnswered => /\ peer_response = response
                    /\ menu_db = peer_menu_db

MenuOps ==
    {"add_menu_item", "get_all_menu_items", "get_menu_item", "update_menu_item",
     "delete_menu_item", "get_items_by_category"}

OrderOps ==
    {"create_order", "get_all_orders", "get_order_details", "update_order_status",
     "run_order_test_cases"}

\* C13: the first order created gets id 1 whatever the menu holds, each later
\* order gets an id greater than every earlier order id, a created order is
\* stored with status pending under its id, a rejected create order leaves the
\* order counter and the order mapping unchanged, no menu operation changes
\* the order counter and no order operation changes the menu counter.
C13_OrderIdsOwnCounter ==
    [][/\ (request'.op = "create_order" /\ response'.status = 201)
          => LET id == response'.body[1].id
             IN  /\ orders_db = <<>> => id = 1
                 /\ \A k \in DictKeys(orders_db) : id > k
                 /\ DictKeys(orders_db') = DictKeys(orders_db) \cup {id}
                 /\ DictGet(orders_db', id).id = id
                 /\ DictGet(orders_db', id).status = "pending"
                 /\ response'.body[1].status = "pending"
                 /\ next_order_id' > id
       /\ (request'.op = "create_order" /\ response'.status # 201) => OrderFrame
       /\ request'.op \in MenuOps => OrderFrame
       /\ request'.op \in OrderOps => next_menu_id' = next_menu_id]_vars

\* C13's case: with a menu item added and another deleted, a second order is
\* created and gets id 2
C13_Witness ==
    /\ request.op = "create_order"
    /\ response.status = 201
    /\ response.body[1].id = 2
    /\ DictKeys(orders_db) = {1, 2}
    /\ next_menu_id > Len(SampleItems) + 1

\* the structural constraints on the customer and the lines of an order
StructurallyValid(body) ==
    /\ 2 <= StrLen(body.customer.name) /\ StrLen(body.customer.name) <= 50
    /\ StrLen(body.customer.phone) = 10
    /\ \A i \in 1..Len(body.customer.phone) : body.customer.phone[i].c = "digit"
    /\ StrLen(body.customer.address) >= 5
    /\ Len(body.items) >= 1
    /\ \A i \in 1..Len(body.items) :
          /\ body.items[i].menu_item_id >= 1
          /\ 1 <= StrLen(body.items[i].menu_item_name)
          /\ StrLen(body.items[i].menu_item_name) <= 100
          /\ 1 <= body.items[i].quantity /\ body.items[i].quantity <= 10
          /\ body.items[i].unit_price > 0
          /\ body.items[i].unit_price % 10 = 0

WithStatus(db, id, st) ==
    [i \in 1..Len(db) |->
        IF db[i].key = id THEN [db[i] EXCEPT !.value.status = st] ELSE db[i]]

\* C15: update order status on an existing order succeeds for every pair
\* (current status, new status) of the four statuses; afterwards the order has
\* the requested status, and its id, customer and lines, every other order,
\* the order counter and the menu are unchanged.
C15_AnyStatusToAnyStatus ==
    /\ [](\A i \in 1..Len(orders_db), st \in OrderStatus :
             /\ orders_db[i].value.status \in OrderStatus
             /\ update_order_status(orders_db[i].key, st).status = 200
             /\ update_order_status(orders_db[i].key, st).orders_db
                   = WithStatus(orders_db, orders_db[i].key, st))
    /\ [][(/\ request'.op = "update_order_status"
           /\ request'.arg \in OrderStatus
           /\ DictHas(orders_db, request'.id))
          => (/\ response'.status = 200
              /\ response'.body[1].id = request'.id
              /\ response'.body[1].status = request'.arg
              /\ orders_db' = WithStatus(orders_db, request'.id, request'.arg)
              /\ next_order_id' = next_order_id
              /\ MenuFrame)]_vars

\* C15's case: order 1, created pending and one of several orders, is moved
\* to pending (the same status, or a move backwards) and the order after it
\* has been confirmed
C15_Witness ==
    /\ request.op = "update_order_status"
    /\ request.id = 1
    /\ request.arg = "pending"
    /\ response.status = 200
    /\ DictGet(orders_db, 1).status = "pending"
    /\ DictHas(orders_db, 2)
    /\ DictGet(orders_db, 2).status = "confirmed"

\* the sum of quantity times unit_price over the lines numbered in S, taken
\* in no particular order
RECURSIVE SumOfPrices(_, _)
SumOfPrices(items, S) ==
    IF S = {} THEN 0
    ELSE LET i == CHOOSE j \in S : TRUE
         IN  items[i].quantity * items[i].unit_price + SumOfPrices(items, S \ {i})

\* the sum of the quantities of the lines numbered in S
RECURSIVE SumOfQuantities(_, _)
SumOfQuantities(items, S) ==
    IF S = {} THEN 0
    ELSE LET i == CHOOSE j \in S : TRUE
         IN  items[i].quantity + SumOfQuantities(items, S \ {i})

\* the four totals of a list of lines
Totals(items) ==
    [total_amount |-> SumOfPrices(items, 1..Len(items)),
     total_amount_with_delivery |-> SumOfPrices(items, 1..Len(items)) + Dec(2, 99),
     total_items_count |-> Len(items),
     total_quantity |-> SumOfQuantities(items, 1..Len(items))]

\* the four totals the program computes for an order
ComputedTotals(order) ==
    [total_amount |-> total_amount(order),
     total_amount_with_delivery |-> total_amount_with_delivery(order),
     total_items_count |-> total_items_count(order),
     total_quantity |-> total_quantity(order)]

\* the four totals a detailed response shows
ShownTotals(r) ==
    [total_amount |-> r.total_amount,
     total_amount_with_delivery |-> r.total_amount_with_delivery,
     total_items_count |-> r.total_items_count,
     total_quantity |-> r.total_quantity]

Reversed(items) == [i \in 1..Len(items) |-> items[Len(items) + 1 - i]]

\* C16: for every stored order total_amount is the sum over its lines of
\* quantity times unit_price, total_amount_with_delivery is that plus 2.99,
\* total_items_count is the number of lines and total_quantity the sum of the
\* quantities; the four do not depend on the order of the lines and are the
\* same at creation, in get order and in list orders, before and after a
\* status update.
C16_OrderTotals ==
    /\ [](\A i \in 1..Len(orders_db) :
             LET order == orders_db[i].value
             IN  /\ ComputedTotals(order) = Totals(order.items)
                 /\ ComputedTotals([order EXCEPT !.items = Reversed(order.items)])
                       = ComputedTotals(order))
    /\ [][/\ (/\ request'.op \in {"create_order", "get_order_details",
                                  "update_order_status"}
              /\ response'.status \in {200, 201})
             => ShownTotals(response'.body[1])
                   = Totals(DictGet(orders_db', response'.body[1].id).items)
          /\ request'.op = "update_order_status" /\ response'.status = 200
             => ComputedTotals(DictGet(orders_db', request'.id))
                   = ComputedTotals(DictGet(orders_db, request'.id))
          /\ request'.op = "get_all_orders"
             => /\ Len(response'.body) = Len(orders_db)
                /\ \A j \in 1..Len(orders_db) :
                      /\ response'.body[j].id = orders_db[j].key
                      /\ response'.body[j].total_amount
                            = Totals(orders_db[j].value.items).total_amount]_vars

\* C16's case: the list of orders shows 40.99 for the two-line order 1 after
\* its status was moved to delivered, and another order beside it
C16_Witness ==
    /\ request.op = "get_all_orders"
    /\ Len(response.body) >= 2
    /\ response.body[1].total_amount = Dec(40, 99)
    /\ response.body[1].status = "delivered"
    /\ Len(DictGet(orders_db, 1).items) = 2
    /\ total_amount_with_delivery(DictGet(orders_db, 1)) = Dec(43, 98)
    /\ total_quantity(DictGet(orders_db, 1)) = 3

\* C17: no order operation writes the menu: create order (accepted or
\* rejected), list orders, get order, update order status and the
\* demonstration endpoint each leave the menu mapping and the menu id counter
\* unchanged.
C17_OrderOpsLeaveMenu ==
    [][request'.op \in OrderOps
       => (menu_db' = menu_db /\ next_menu_id' = next_menu_id)]_vars

\* C17's case: the demonstration endpoint has run after an earlier order, and
\* the menu still holds the six samples, item 1 at 15.99 and item 6
\* unavailable
C17_Witness ==
    /\ request.op = "run_order_test_cases"
    /\ response.status = 200
    /\ Len(orders_db) = 5
    /\ DictKeys(menu_db) = 1..Len(SampleItems)
    /\ next_menu_id = Len(SampleItems) + 1
    /\ DictGet(menu_db, 1)["price"] = Dec(15, 99)
    /\ ~DictGet(menu_db, 6)["is_available"]

\* C18: a stored order is permanent and a snapshot: after any operation of
\* the order service every order created so far is in the order mapping under
\* its id with the customer and the lines it had; updating or deleting the
\* menu item a line refers to changes no stored order and no order total.
C18_OrdersArePermanentSnapshots ==
    /\ [](\A i \in 1..Len(orders_db) :
             /\ orders_db[i].key = i
             /\ orders_db[i].value.id = i
             /\ i < next_order_id)
    /\ [][/\ Len(orders_db') >= Len(orders_db)
          /\ \A i \in 1..Len(orders_db) :
                /\ orders_db'[i].key = orders_db[i].key
                /\ orders_db'[i].value.id = orders_db[i].value.id
                /\ orders_db'[i].value.customer = orders_db[i].value.customer
                /\ orders_db'[i].value.items = orders_db[i].value.items
                /\ total_amount(orders_db'[i].value) = total_amount(orders_db[i].value)
          /\ request'.op \in MenuOps => orders_db' = orders_db]_vars

\* C18's case: menu item 1 is deleted while order 1 holds a line for it
C18_Witness ==
    /\ request.op = "delete_menu_item"
    /\ request.id = 1
    /\ response.status = 200
    /\ ~DictHas(menu_db, 1)
    /\ DictHas(orders_db, 1)
    /\ DictGet(orders_db, 1).items[1].menu_item_id = 1
    /\ DictGet(orders_db, 1).items[1].unit_price = Dec(15, 99)
    /\ DictGet(orders_db, 1).status = "ready"

\* the answered requests of an operation that ended with a status
AnsweredWith(op, st) == {c \in completed : c.req.op = op /\ c.status = st}

\* C19: with several requests in flight and each handler run to completion
\* before another starts, in every interleaving of create item and create
\* order requests each accepted request has an id of its own, every accepted
\* record is stored as submitted and none is overwritten, and each mapping
\* holds one entry per accepted create that was not later deleted.
C19_InterleavedCreates ==
    /\ \A op \in {"add_menu_item", "create_order"} :
          \A c, d \in AnsweredWith(op, 201) : c.tag # d.tag => c.id # d.id
    /\ \A c \in AnsweredWith("add_menu_item", 201) :
          \/ /\ DictHas(menu_db, c.id)
             /\ DictGet(menu_db, c.id) = SubmittedRecord(c.id, MenuPayload(c.req.arg))
          \/ /\ ~DictHas(menu_db, c.id)
             /\ \E d \in AnsweredWith("delete_menu_item", 200) : d.req.id = c.id
    /\ \A c \in AnsweredWith("create_order", 201) :
          /\ DictHas(orders_db, c.id)
          /\ DictGet(orders_db, c.id).items = OrderPayload(c.req.arg).items
          /\ DictGet(orders_db, c.id).customer = OrderPayload(c.req.arg).customer
    /\ Seeded =>
          Len(menu_db) = Len(SampleItems)
                         + Cardinality(AnsweredWith("add_menu_item", 201))
                         - Cardinality(AnsweredWith("delete_menu_item", 200))
    /\ Len(orders_db) = Cardinality(AnsweredWith("create_order", 201))

\* C19's case: three requests were in flight together; the one that arrived
\* last was answered first, and two creates of different items were accepted
C19_Witness ==
    /\ pending = {}
    /\ \E c, d, e \in completed :
          /\ c.tag = MaxInFlight /\ c.req.op = "add_menu_item" /\ c.status = 201
          /\ d.tag = 1 /\ d.req.op = "add_menu_item" /\ d.status = 201
          /\ d.req.arg # c.req.arg
          /\ c.id < d.id
          /\ e.req.op = "delete_menu_item" /\ e.status = 200

\* the four scenarios the demonstration endpoint stores, in the order it
\* runs them
StoredScenarios ==
    <<"valid_order", "invalid_menu_item_id", "price_mismatch", "unavailable_item">>

\* C20: a call of the demonstration endpoint adds exactly four orders with
\* four consecutive new ids (the valid order, the order for menu item 999, the
\* price-mismatch order and the unavailable-item order), the first confirmed
\* and the other three pending, adds none for the empty-items, invalid-phone
\* and quantity-15 scenarios, and reports the three unenforced rules as FAIL;
\* n calls leave 4n more orders.
C20_RunOrderTestsAddsFour ==
    [][request'.op = "run_order_test_cases"
       => LET before == Len(orders_db)
              first == next_order_id
              report == response'.body[1]
          IN  /\ response'.status = 200
              /\ Len(orders_db') = before + 4
              /\ SubSeq(orders_db', 1, before) = orders_db
              /\ \A k \in DictKeys(orders_db) : k < first
              /\ \A j \in 1..4 :
                    /\ orders_db'[before + j].key = first + j - 1
                    /\ orders_db'[before + j].value.id = first + j - 1
                    /\ orders_db'[before + j].value.customer
                          = OrderPayload(StoredScenarios[j]).customer
                    /\ orders_db'[before + j].value.items
                          = OrderPayload(StoredScenarios[j]).items
                    /\ orders_db'[before + j].value.status
                          = (IF j = 1 THEN "confirmed" ELSE "pending")
              /\ next_order_id' = first + 4
              /\ report.order_id = first
              /\ report.valid_order_test = "PASS"
              /\ report.status_update_test = "PASS"
              /\ report.empty_items_test = "PASS"
              /\ report.invalid_phone_test = "PASS"
              /\ report.large_quantity_test = "PASS"
              /\ report.invalid_menu_item_id_test = "FAIL"
              /\ report.price_mismatch_test = "FAIL"
              /\ report.unavailable_item_test = "FAIL"]_vars

\* C20's case: the endpoint has been called twice, the second time on a
\* store whose first order had been moved on to delivered
C20_Witness ==
    /\ request.op = "run_order_test_cases"
    /\ response.status = 200
    /\ Len(orders_db) = 8
    /\ response.body[1].order_id = 5
    /\ response.body[1].computed_properties_verified = "SKIPPED (not first order)"
    /\ DictGet(orders_db, 1).status = "delivered"
    /\ DictGet(orders_db, 5).status = "confirmed"

====
